---- MODULE Spec2Model ----
(***************************************************************************)
(* Model of the math routing agent backend (src/backend).                  *)
(*                                                                         *)
(* Texts are TLA+ strings and the string functions of the source (lower,   *)
(* strip, startswith, the "in" substring test, re.search) are computed     *)
(* character by character.  Confidences are integers in hundredths         *)
(* (0.9 is 90).  The characters of the model are those of Latin-1: the     *)
(* three members of the math symbol class beyond it are left out and the   *)
(* seeded documents are written in ASCII transliteration.                  *)
(***************************************************************************)
EXTENDS Integers, Sequences, FiniteSets, TLC

VARIABLES
    client,              \* KnowledgeBase.client is not None
    collection,          \* KnowledgeBase.collection is not None
    store_docs,          \* number of documents in the persistent collection
    tavily_api_key,      \* WebSearchMCP.tavily_api_key is set
    now,                 \* int(datetime.now().timestamp()), in seconds
    init_calls,          \* number of KnowledgeBase.initialize calls so far
    question_responses,  \* main.question_responses: question_id -> record
    feedback_data,       \* FeedbackSystem.feedback_data
    responses,           \* question_ids of the responses returned by /ask
    last,                \* outcome of the last operation
    in_flight,           \* questions of the calls waiting at "await client.post"
    rq,                  \* router development: the question
    decision,            \* router development: route_question(rq) once called
    prev_decision,       \* router development: decision before the last addition
    added,               \* router development: kinds of the keywords added
    gq,                  \* guardrail development: the question
    gvalid,              \* guardrail development: <<InputGuardrails.validate(gq)>> once called
    gans,                \* guardrail development: the candidate answer
    gout                 \* guardrail development: <<OutputGuardrails.validate(gans)>> once called

sysvars == <<client, collection, store_docs, tavily_api_key, now, init_calls,
             question_responses, feedback_data, responses, last, in_flight>>
routervars == <<rq, decision, prev_decision, added>>
guardvars == <<gq, gvalid, gans, gout>>
vars == <<client, collection, store_docs, tavily_api_key, now, init_calls,
          question_responses, feedback_data, responses, last, in_flight,
          rq, decision, prev_decision, added, gq, gvalid, gans, gout>>

(***************************************************************************)
(* Bounds.                                                                 *)
(***************************************************************************)
MaxClock == 1
MaxAsks == 2
MaxFeedback == 1
MaxInitCalls == 2
MaxInFlight == 1
MaxRouterFrags == 2
MaxAdds == 1
MaxQuestionFrags == 3
MaxAnswerFrags == 3
MaxPasses == 2

(***************************************************************************)
(* Python string primitives.                                               *)
(***************************************************************************)
\* str.isspace and the class \s of re: tab, line feed, vertical tab, form
\* feed, carriage return, the separators 1C to 1F, space, next line (85)
\* and the no-break space (A0)
Whitespace == {"\t", "\n", "", "\f", "\r", "", "", "", "", " ", "", " "}

Digits == {"0", "1", "2", "3", "4", "5", "6", "7", "8", "9"}

LowerOf ==
    "A" :> "a" @@ "B" :> "b" @@ "C" :> "c" @@ "D" :> "d" @@ "E" :> "e" @@
    "F" :> "f" @@ "G" :> "g" @@ "H" :> "h" @@ "I" :> "i" @@ "J" :> "j" @@
    "K" :> "k" @@ "L" :> "l" @@ "M" :> "m" @@ "N" :> "n" @@ "O" :> "o" @@
    "P" :> "p" @@ "Q" :> "q" @@ "R" :> "r" @@ "S" :> "s" @@ "T" :> "t" @@
    "U" :> "u" @@ "V" :> "v" @@ "W" :> "w" @@ "X" :> "x" @@ "Y" :> "y" @@
    "Z" :> "z" @@
    "À" :> "à" @@ "Á" :> "á" @@ "Â" :> "â" @@ "Ã" :> "ã" @@ "Ä" :> "ä" @@
    "Å" :> "å" @@ "Æ" :> "æ" @@ "Ç" :> "ç" @@ "È" :> "è" @@ "É" :> "é" @@
    "Ê" :> "ê" @@ "Ë" :> "ë" @@ "Ì" :> "ì" @@ "Í" :> "í" @@ "Î" :> "î" @@
    "Ï" :> "ï" @@ "Ð" :> "ð" @@ "Ñ" :> "ñ" @@ "Ò" :> "ò" @@ "Ó" :> "ó" @@
    "Ô" :> "ô" @@ "Õ" :> "õ" @@ "Ö" :> "ö" @@ "Ø" :> "ø" @@ "Ù" :> "ù" @@
    "Ú" :> "ú" @@ "Û" :> "û" @@ "Ü" :> "ü" @@ "Ý" :> "ý" @@ "Þ" :> "þ"

\* s[i:i+1], 1-based: the empty string outside the text
CharAt(s, i) == IF i >= 1 /\ i <= Len(s) THEN SubSeq(s, i, i) ELSE ""

RECURSIVE lower(_)
lower(s) ==
    IF s = "" THEN ""
    ELSE LET c == Head(s)
         IN (IF c \in DOMAIN LowerOf THEN LowerOf[c] ELSE c) \o lower(Tail(s))

RECURSIVE lstrip(_)
lstrip(s) ==
    IF s = "" THEN ""
    ELSE IF Head(s) \in Whitespace THEN lstrip(Tail(s)) ELSE s

RECURSIVE rstrip(_)
rstrip(s) ==
    IF s = "" THEN ""
    ELSE IF CharAt(s, Len(s)) \in Whitespace
         THEN rstrip(SubSeq(s, 1, Len(s) - 1)) ELSE s

strip(s) == rstrip(lstrip(s))

\* sub in s
contains(s, sub) ==
    \E i \in 1..(Len(s) - Len(sub) + 1) : SubSeq(s, i, i + Len(sub) - 1) = sub

startswith(s, prefix) ==
    /\ Len(s) >= Len(prefix)
    /\ SubSeq(s, 1, Len(prefix)) = prefix

\* s[:n]
Take(s, n) == IF Len(s) <= n THEN s ELSE SubSeq(s, 1, n)

Min(a, b) == IF a <= b THEN a ELSE b

DigitStr == <<"0", "1", "2", "3", "4", "5", "6", "7", "8", "9">>

\* str(n) for a non-negative integer
RECURSIVE str(_)
str(n) == IF n < 10 THEN DigitStr[n + 1]
          ELSE str(n \div 10) \o DigitStr[(n % 10) + 1]

(***************************************************************************)
(* guardrails.py: InputGuardrails.                                         *)
(*                                                                         *)
(* A blocked pattern is a case-insensitive alternation; an alternative is  *)
(* a tuple of literal words, consecutive words separated by \s+.           *)
(***************************************************************************)
blocked_patterns == <<
    { <<"hack">>, <<"exploit">>, <<"malware">>, <<"virus">> },
    { <<"personal", "information">>, <<"private", "data">>,
      <<"social", "security">> },
    { <<"violent">>, <<"harmful">>, <<"illegal">>, <<"dangerous">> },
    { <<"password">>, <<"credit", "card">>, <<"bank", "account">> } >>

math_keywords == <<
    "equation", "derivative", "integral", "theorem", "proof",
    "calculation", "formula", "solve", "compute", "mathematics",
    "algebra", "geometry", "calculus", "statistics", "probability",
    "function", "limit", "matrix", "vector", "graph", "number",
    "polynomial", "logarithm", "exponential", "trigonometry" >>

question_words == <<"what", "how", "why", "where", "when", "explain",
                    "solve", "find", "calculate">>

\* the ASCII members of the class [+\-*/=^()...]
math_symbols == {"+", "-", "*", "/", "=", "^", "(", ")"}

\* the alternative alt matches s at position i
RECURSIVE MatchAt(_, _, _)
MatchAt(s, alt, i) ==
    LET w == Head(alt)
        e == i + Len(w)
    IN /\ e - 1 <= Len(s)
       /\ SubSeq(s, i, e - 1) = w
       /\ \/ Len(alt) = 1
          \/ /\ Len(alt) > 1
             /\ \E j \in (e + 1)..Len(s) :
                    /\ \A k \in e..(j - 1) : CharAt(s, k) \in Whitespace
                    /\ MatchAt(s, Tail(alt), j)

\* re.search(pattern, question) for a (?i) pattern of blocked_patterns;
\* folded is the question case-folded
search_blocked(pattern, folded) ==
    \E alt \in pattern : \E i \in 1..Len(folded) : MatchAt(folded, alt, i)

has_math_content(question_lower) ==
    \E i \in 1..Len(math_keywords) : contains(question_lower, math_keywords[i])

\* re.search(r'\d', question)
has_numbers(question) ==
    \E i \in 1..Len(question) : CharAt(question, i) \in Digits

has_math_symbols(question) ==
    \E i \in 1..Len(question) : CharAt(question, i) \in math_symbols

has_question_words(question_lower) ==
    \E i \in 1..Len(question_words) : contains(question_lower, question_words[i])

MinQuestionLen == 3

\* "<=" in place of "<"
InputValidate_short_inclusive(question) ==
    question = "" \/ Len(strip(question)) <= MinQuestionLen

InputValidate_short(question) ==
    question = "" \/ Len(strip(question)) < MinQuestionLen

matches_blocked(question) ==
    LET folded == lower(question)
    IN \E p \in 1..Len(blocked_patterns) :
           search_blocked(blocked_patterns[p], folded)

InputValidate(question) ==
    IF InputValidate_short(question) THEN FALSE
    ELSE IF matches_blocked(question) THEN FALSE
    ELSE LET question_lower == lower(question)
         IN \/ has_math_content(question_lower)
            \/ has_numbers(question)
            \/ has_math_symbols(question)
            \/ has_question_words(question_lower)

(***************************************************************************)
(* guardrails.py: OutputGuardrails.                                        *)
(***************************************************************************)
blocked_outputs == <<"I cannot", "I'm unable", "I don't know", "I can't help">>

MinAnswerLen == 10

\* a longer marker: the whole heading of the first seeded answer
StepMarker_solution == "**Step-by-step solution:**"

StepMarker == "**Step-by-step"

EducationalHeader == "**Educational Mathematical Response:**\n\n"

FallbackMessage == "I apologize, but I couldn't generate a comprehensive answer. Please try rephrasing your question."

Disclaimer == "\n\n**Note:** This is an educational mathematics system. Please ensure your question is related to mathematical concepts."

has_blocked_output(answer) ==
    \E i \in 1..Len(blocked_outputs) : contains(answer, blocked_outputs[i])

OutputValidate_short(answer) ==
    answer = "" \/ Len(strip(answer)) < MinAnswerLen

\* the marker looked for anywhere in the answer, not at its start
OutputValidate_header_anywhere(answer) ==
    IF ~contains(answer, StepMarker) THEN EducationalHeader \o answer
    ELSE answer

OutputValidate_header(answer) ==
    IF ~startswith(answer, StepMarker) THEN EducationalHeader \o answer
    ELSE answer

\* the disclaimer appended whether or not an evasive phrase is found
OutputValidate_disclaimer_always(answer) ==
    IF OutputValidate_short(answer) THEN FallbackMessage
    ELSE OutputValidate_header(answer) \o Disclaimer

OutputValidate(answer) ==
    IF OutputValidate_short(answer) THEN FallbackMessage
    ELSE LET a == OutputValidate_header(answer)
         IN IF has_blocked_output(a) THEN a \o Disclaimer ELSE a

(***************************************************************************)
(* routing_agent.py: RoutingAgent.                                         *)
(***************************************************************************)
kb_keywords == <<
    "derivative", "integral", "quadratic", "pythagorean",
    "theorem", "basic", "fundamental", "simple", "formula",
    "solve", "what is", "how to", "definition", "equation" >>

web_keywords == <<
    "latest", "recent", "new", "current", "modern",
    "advanced", "cutting-edge", "development", "research",
    "breakthrough", "discovery", "innovation", "trend" >>

kb_score(question_lower) ==
    Cardinality({i \in 1..Len(kb_keywords) :
                     contains(question_lower, kb_keywords[i])})

web_score(question_lower) ==
    Cardinality({i \in 1..Len(web_keywords) :
                     contains(question_lower, web_keywords[i])})

\* re.search(r'(x\^?\d|derivative|integral|equation)', question_lower)
has_basic_math(question_lower) ==
    \/ \E i \in 1..Len(question_lower) :
          /\ CharAt(question_lower, i) = "x"
          /\ \/ CharAt(question_lower, i + 1) \in Digits
             \/ /\ CharAt(question_lower, i + 1) = "^"
                /\ CharAt(question_lower, i + 2) \in Digits
    \/ contains(question_lower, "derivative")
    \/ contains(question_lower, "integral")
    \/ contains(question_lower, "equation")

\* the score subtracted instead of added
kb_confidence_minus(score) == Min(90, 60 - (score * 10))

kb_confidence(score) == Min(90, 60 + (score * 10))

web_confidence(score) == Min(80, 50 + (score * 10))

\* ">=" in place of ">"
chooses_kb_on_tie(kb, web, basic) == kb >= web \/ basic

chooses_kb(kb, web, basic) == kb > web \/ basic

route_question(question) ==
    LET question_lower == lower(question)
        kb == kb_score(question_lower)
        web == web_score(question_lower)
        basic == has_basic_math(question_lower)
    IN IF chooses_kb(kb, web, basic)
       THEN [route |-> "knowledge_base", confidence |-> kb_confidence(kb),
             reason |-> "Question matches knowledge base content",
             kb_score |-> kb, web_score |-> web]
       ELSE [route |-> "web_search", confidence |-> web_confidence(web),
             reason |-> "Question requires current information or advanced topics",
             kb_score |-> kb, web_score |-> web]

(***************************************************************************)
(* knowledge_base.py: KnowledgeBase.                                       *)
(*                                                                         *)
(* The persistent collection is the number of documents it holds; chromadb *)
(* is the environment: each of its calls may raise, and a query over a     *)
(* non-empty collection returns one of the stored documents.               *)
(***************************************************************************)
initial_data == <<
    [id |-> "calc_derivative_1",
     question |-> "What is the derivative of x^2?",
     answer |-> "**Step-by-step solution:**\n\n1. **Identify the function:** f(x) = x^2\n2. **Apply the power rule:** For f(x) = x^n, f'(x) = n*x^(n-1)\n3. **Calculate:** f'(x) = 2*x^(2-1) = 2x\n4. **Verify:** The derivative of x^2 is 2x\n\n**Key concept:** The power rule is fundamental in calculus for finding derivatives of polynomial functions.",
     topic |-> "calculus",
     difficulty |-> "basic"],
    [id |-> "algebra_quadratic_1",
     question |-> "How do you solve a quadratic equation?",
     answer |-> "**Step-by-step solution for ax^2 + bx + c = 0:**\n\n1. **Identify coefficients:** a, b, and c\n2. **Apply quadratic formula:** x = (-b +/- sqrt(b^2 - 4ac)) / (2a)\n3. **Calculate discriminant:** D = b^2 - 4ac\n4. **Determine solutions:**\n   - If D > 0: Two real solutions\n   - If D = 0: One real solution\n   - If D < 0: Two complex solutions\n\n**Example:** For x^2 - 5x + 6 = 0\n- a = 1, b = -5, c = 6\n- x = (5 +/- sqrt(25 - 24)) / 2 = (5 +/- 1) / 2\n- Solutions: x = 3 or x = 2",
     topic |-> "algebra",
     difficulty |-> "intermediate"],
    [id |-> "geometry_pythagorean_1",
     question |-> "What is the Pythagorean theorem?",
     answer |-> "**The Pythagorean Theorem:**\n\n1. **Statement:** In a right triangle, a^2 + b^2 = c^2\n2. **Where:**\n   - a and b are the lengths of the legs\n   - c is the length of the hypotenuse (longest side)\n3. **Application steps:**\n   - Identify the right triangle\n   - Label the sides (legs and hypotenuse)\n   - Substitute known values\n   - Solve for the unknown side\n\n**Example:** If legs are 3 and 4 units:\n- a^2 + b^2 = c^2\n- 3^2 + 4^2 = c^2\n- 9 + 16 = c^2\n- c = sqrt25 = 5 units",
     topic |-> "geometry",
     difficulty |-> "basic"] >>

\* the steps of initialize at which the store can raise, and "none"
InitFaults == {"none", "open", "get_collection", "count", "add"}

\* self.client after initialize
initialize_client(fault) == IF fault = "open" THEN client ELSE TRUE

\* the handle kept although get_or_create_collection raised
initialize_collection_early(fault) ==
    IF fault = "open" THEN collection ELSE TRUE

\* self.collection after initialize
initialize_collection(fault) ==
    IF fault \in {"open", "get_collection"} THEN collection ELSE TRUE

\* the collection after load_initial_data: collection.add may raise, which
\* load_initial_data logs and swallows
load_initial_data(fault) ==
    IF fault = "add" THEN store_docs ELSE store_docs + Len(initial_data)

\* the collection after initialize
initialize_store(fault) ==
    IF fault \in {"open", "get_collection", "count"} THEN store_docs
    ELSE IF store_docs = 0 THEN load_initial_data(fault)
    ELSE store_docs

\* initialize reaches its "initialized successfully" log line
initialize_completes(fault) == fault \in {"none", "add"}

\* is_healthy(); count_raises: collection.count() raises
is_healthy(count_raises) ==
    IF ~collection THEN FALSE
    ELSE IF count_raises THEN FALSE
    ELSE store_docs > 0

KBNotInitialized == "Knowledge base not initialized"

KBNoMatch == "No relevant information found in knowledge base"

KBQueryError == "Error accessing knowledge base: query failed"

KBSource == "Knowledge Base (ChromaDB)"

\* the origin tag left on the result of a failed lookup
kb_get_answer_tagged_error(kb, question, query_raises, nearest) ==
    IF ~kb.collection
    THEN [answer |-> KBNotInitialized, confidence |-> 0, sources |-> <<>>,
          metadata |-> <<>>]
    ELSE IF query_raises
    THEN [answer |-> KBQueryError, confidence |-> 0, sources |-> <<KBSource>>,
          metadata |-> <<>>]
    ELSE IF kb.store_docs > 0
    THEN [answer |-> initial_data[nearest].answer, confidence |-> 90,
          sources |-> <<KBSource>>,
          metadata |-> << <<"question", initial_data[nearest].question>>,
                          <<"topic", initial_data[nearest].topic>>,
                          <<"difficulty", initial_data[nearest].difficulty>> >>]
    ELSE [answer |-> KBNoMatch, confidence |-> 0, sources |-> <<>>,
          metadata |-> <<>>]

\* get_answer(question) on the store kb; query_raises: collection.query
\* raises; nearest: index of the document the query returns
kb_get_answer(kb, question, query_raises, nearest) ==
    IF ~kb.collection
    THEN [answer |-> KBNotInitialized, confidence |-> 0, sources |-> <<>>,
          metadata |-> <<>>]
    ELSE IF query_raises
    THEN [answer |-> KBQueryError, confidence |-> 0, sources |-> <<>>,
          metadata |-> <<>>]
    ELSE IF kb.store_docs > 0
    THEN [answer |-> initial_data[nearest].answer, confidence |-> 90,
          sources |-> <<KBSource>>,
          metadata |-> << <<"question", initial_data[nearest].question>>,
                          <<"topic", initial_data[nearest].topic>>,
                          <<"difficulty", initial_data[nearest].difficulty>> >>]
    ELSE [answer |-> KBNoMatch, confidence |-> 0, sources |-> <<>>,
          metadata |-> <<>>]

(***************************************************************************)
(* web_search.py: WebSearchMCP.                                            *)
(*                                                                         *)
(* The provider is the environment: a live search ends in a transport or   *)
(* status error, or in a list of hits; a hit's content may be JSON null    *)
(* (content_null), on which the slice in _synthesize_basic raises.         *)
(***************************************************************************)
ProviderOutcomes == {"transport_error", "no_results", "one_hit", "five_hits",
                     "null_content"}

Hit(n) == [title |-> "Result " \o str(n),
           content |-> "Survey " \o str(n) \o " of the topic.",
           url |-> "https://example.org/" \o str(n),
           score |-> 90 - n, content_null |-> FALSE]

\* data.get("results", []) of the provider's reply
provider_results(outcome) ==
    CASE outcome = "one_hit" -> <<Hit(1)>>
      [] outcome = "five_hits" -> <<Hit(1), Hit(2), Hit(3), Hit(4), Hit(5)>>
      [] outcome = "null_content" ->
            <<[Hit(1) EXCEPT !.content = "", !.content_null = TRUE]>>
      [] OTHER -> <<>>

_search_tavily(query, outcome) ==
    IF outcome = "transport_error" THEN <<>> ELSE provider_results(outcome)

_simulate_search(query) == <<
    [title |-> "Mathematical Research: " \o query,
     content |-> "Current research in " \o query \o " shows significant developments in theoretical and applied mathematics. Recent studies indicate new methodologies and applications in various fields.",
     url |-> "https://example.com/math-research",
     score |-> 90, content_null |-> FALSE],
    [title |-> "Academic Insights: " \o query,
     content |-> "Academic perspective on " \o query \o " reveals important theoretical foundations and practical implications for mathematical education and research.",
     url |-> "https://example.com/academic-paper",
     score |-> 80, content_null |-> FALSE] >>

MaxExcerpt == 300

MaxSynthSources == 2

MaxRawSnippets == 3

\* the "Source i" paragraphs of results[from..]
RECURSIVE source_paragraphs(_, _)
source_paragraphs(results, i) ==
    IF i > Len(results) THEN ""
    ELSE "**Source " \o str(i) \o ":** " \o results[i].title \o "\n"
         \o Take(results[i].content, MaxExcerpt) \o "...\n\n"
         \o source_paragraphs(results, i + 1)

\* result['content'][:300] raises on a null content
synthesize_raises(results) ==
    \E i \in 1..Min(MaxSynthSources, Len(results)) : results[i].content_null

_synthesize_basic(question, results) ==
    IF results = <<>>
    THEN "I couldn't find specific information about '" \o question \o "' in current sources. Please try rephrasing your question."
    ELSE "**Step-by-step solution via Web Search:**\n\n**Question:** " \o question
         \o "\n\n**Solution:**\n1. **Research phase:** Found " \o str(Len(results))
         \o " relevant sources from current mathematical literature\n2. **Analysis:** Processing the latest findings and methodologies  \n3. **Synthesis:** Based on current research, this topic involves multiple approaches and applications\n4. **Verification:** Cross-referenced with authoritative mathematical sources\n\n**Current insights:**\nBased on recent mathematical research, here are the key findings:\n\n"
         \o source_paragraphs(SubSeq(results, 1, Min(MaxSynthSources, Len(results))), 1)
         \o "**Sources verified:**\n- Academic papers and research\n- Mathematical literature\n- Educational resources"

WebSources == <<"Web Search", "Academic Sources">>

web_success_confidence == 80

\* the result get_answer returns after a synthesis that did not raise
web_result(answer, search_results) ==
    [answer |-> answer, confidence |-> web_success_confidence,
     sources |-> WebSources,
     search_results |-> SubSeq(search_results, 1,
                               Min(MaxRawSnippets, Len(search_results)))]

\* the snippets get_answer searches up
web_search_results(ws, question, outcome) ==
    IF ws.tavily_api_key THEN _search_tavily(question, outcome)
    ELSE _simulate_search(question)

\* get_answer(question) on the client ws; outcome: what a live search ends in
web_get_answer(ws, question, outcome) ==
    LET search_results == web_search_results(ws, question, outcome)
    IN IF synthesize_raises(search_results)
       THEN [answer |-> "Unable to search for '" \o question
                        \o "'. Please try again later. Error: 'NoneType' object is not subscriptable",
             confidence |-> 0, sources |-> <<>>, search_results |-> <<>>]
       ELSE web_result(_synthesize_basic(question, search_results),
                       search_results)

(***************************************************************************)
(* main.py: the request handlers.                                          *)
(*                                                                         *)
(* A handler is one action.  The only suspension point of ask_question     *)
(* that yields to other requests is the provider call of the live web      *)
(* path; what precedes it (validation, routing) reads no mutable state, so *)
(* the action is taken at the moment the handler resumes.                  *)
(***************************************************************************)
MinRequestLen == 1

MaxRequestLen == 1000

\* QuestionRequest: Field(..., min_length=1, max_length=1000)
QuestionRequest_ok(question) ==
    Len(question) >= MinRequestLen /\ Len(question) <= MaxRequestLen

question_id_of(t) == "q_" \o str(t)

\* the module-level objects of main.py
knowledge_base == [collection |-> collection, store_docs |-> store_docs]

web_search == [tavily_api_key |-> tavily_api_key]

\* the error of a store lookup let out of the client into the try block
ask_answer_lookup_propagates(kb, ws, question, query_raises, nearest, outcome) ==
    IF ~InputValidate(question)
    THEN [raised |-> TRUE, status_code |-> 400,
          detail |-> "Question failed input validation"]
    ELSE LET route_decision == route_question(question)
             answer_data ==
                 IF route_decision.route = "knowledge_base"
                 THEN kb_get_answer(kb, question, query_raises, nearest)
                 ELSE web_get_answer(ws, question, outcome)
         IN IF /\ route_decision.route = "knowledge_base"
               /\ kb.collection /\ query_raises
            THEN [raised |-> TRUE, status_code |-> 500,
                  detail |-> "query failed"]
            ELSE [raised |-> FALSE,
                  route_decision |-> route_decision,
                  confidence |-> answer_data.confidence,
                  sources |-> answer_data.sources,
                  validated_answer |-> OutputValidate(answer_data.answer)]

\* the try block of ask_question up to the output guardrails, on the store
\* kb and the search client ws: the exception raised, or the route decision,
\* the retrieval result and the validated answer
ask_answer(kb, ws, question, query_raises, nearest, outcome) ==
    IF ~InputValidate(question)
    THEN [raised |-> TRUE, status_code |-> 400,
          detail |-> "Question failed input validation"]
    ELSE LET route_decision == route_question(question)
             answer_data ==
                 IF route_decision.route = "knowledge_base"
                 THEN kb_get_answer(kb, question, query_raises, nearest)
                 ELSE web_get_answer(ws, question, outcome)
         IN [raised |-> FALSE,
             route_decision |-> route_decision,
             confidence |-> answer_data.confidence,
             sources |-> answer_data.sources,
             validated_answer |-> OutputValidate(answer_data.answer)]

\* the status the except clause of ask_question gives an exception raised in
\* the try block: "except Exception" also catches the HTTPException
ask_except_status(status_code) == 500

\* ask_question from the outcome t of ask_answer: the status and body the
\* caller receives; question_id is made from the clock as first read (now),
\* timestamp is the clock as read again for the response
ask_question(t, timestamp) ==
    IF t.raised
    THEN [status |-> ask_except_status(t.status_code),
          detail |-> "Error processing question: " \o str(t.status_code)
                     \o ": " \o t.detail]
    ELSE [status |-> 200,
          response |-> [answer |-> t.validated_answer,
                        route_used |-> t.route_decision.route,
                        confidence_score |-> t.confidence,
                        sources |-> t.sources,
                        timestamp |-> timestamp,
                        question_id |-> question_id_of(now)],
          route_decision |-> t.route_decision]

\* question_responses[question_id] = {...}
store_record(question, r) ==
    [id \in DOMAIN question_responses \cup {r.response.question_id} |->
        IF id = r.response.question_id
        THEN [request |-> [question |-> question], response |-> r.response,
              route_decision |-> r.route_decision]
        ELSE question_responses[id]]

\* the status of submit_feedback: the 404 raised in the try block is caught
\* by its "except Exception"
submit_feedback_status(question_id) ==
    IF question_id \notin DOMAIN question_responses THEN 500 ELSE 200

\* FeedbackSystem.process_feedback
process_feedback(question_id, feedback_type, question_data) ==
    Append(feedback_data, [question_id |-> question_id,
                           feedback_type |-> feedback_type,
                           timestamp |-> now,
                           question_data |-> question_data])

\* the feedback entry written before the record of the question is looked up
submit_feedback_log_before_lookup(question_id, feedback_type) ==
    Append(feedback_data,
           [question_id |-> question_id,
            feedback_type |-> feedback_type,
            timestamp |-> now,
            question_data |-> IF question_id \in DOMAIN question_responses
                              THEN question_responses[question_id]
                              ELSE <<>>])

\* the feedback log after submit_feedback: process_feedback is called only
\* past the lookup of the question's record
submit_feedback_log(question_id, feedback_type) ==
    IF submit_feedback_status(question_id) = 200
    THEN process_feedback(question_id, feedback_type,
                          question_responses[question_id])
    ELSE feedback_data

(***************************************************************************)
(* The service: startup, then requests.                                    *)
(***************************************************************************)
AskQuestions == {"", "ok", "hack the equation 2+2",
                 "What is the derivative of x^2?",
                 "Latest research in graph theory"}

\* questions with the words that send them to web_search: one plain, one
\* with an evasive phrase of the output guardrail, one with the text of its
\* header; and one for the store and one rejected
WebAskQuestions == {"ok",
                    "What is the derivative of x^2?",
                    "Latest research in graph theory",
                    "I don't know what the latest research is",
                    "What is new in Educational Mathematical Response research"}

FeedbackIds == {"q_0", "q_1", "q_7"}

NoDecision == [route |-> "", confidence |-> 0, reason |-> "",
               kb_score |-> 0, web_score |-> 0]

RouterIdle ==
    /\ rq = ""
    /\ decision = NoDecision
    /\ prev_decision = NoDecision
    /\ added = <<>>

GuardIdle ==
    /\ gq = ""
    /\ gvalid = <<>>
    /\ gans = ""
    /\ gout = <<>>

\* the state after the module-level construction in main.py; the collection
\* on disk is empty or holds the corpus seeded by an earlier run
SysInit ==
    /\ client = FALSE
    /\ collection = FALSE
    /\ store_docs \in {0, Len(initial_data)}
    /\ tavily_api_key \in BOOLEAN
    /\ now = 0
    /\ init_calls = 0
    /\ question_responses = <<>>
    /\ feedback_data = <<>>
    /\ responses = <<>>
    /\ last = [op |-> "none"]
    /\ in_flight = <<>>

Init == SysInit /\ RouterIdle /\ GuardIdle

\* KnowledgeBase.initialize
Initialize(fault) ==
    /\ fault = "add" => store_docs = 0
    /\ client' = initialize_client(fault)
    /\ collection' = initialize_collection(fault)
    /\ store_docs' = initialize_store(fault)
    /\ init_calls' = init_calls + 1
    /\ last' = [op |-> "initialize", fault |-> fault, raised |-> FALSE,
                completed |-> initialize_completes(fault),
                had_collection |-> collection]
    /\ UNCHANGED <<tavily_api_key, now, question_responses, feedback_data,
                   responses, in_flight>>

\* startup_event: knowledge_base.initialize(), web_search.initialize()
Startup ==
    /\ init_calls = 0
    /\ \E fault \in InitFaults : Initialize(fault)
    /\ UNCHANGED <<routervars, guardvars>>

\* the clock advances
Tick ==
    /\ now < MaxClock
    /\ now' = now + 1
    /\ UNCHANGED <<client, collection, store_docs, tavily_api_key, init_calls,
                   question_responses, feedback_data, responses, last,
                   in_flight, routervars, guardvars>>

KBStates == [collection : BOOLEAN, store_docs : {0, Len(initial_data)}]

WSStates == [tavily_api_key : BOOLEAN]

NoEnv == [query_raises |-> FALSE, nearest |-> 1, outcome |-> "no_results"]

\* the replies of the store and of the provider
Envs == {[NoEnv EXCEPT !.query_raises = TRUE]}
        \cup {[NoEnv EXCEPT !.nearest = n] : n \in 1..Len(initial_data)}
        \cup {[NoEnv EXCEPT !.outcome = o] : o \in ProviderOutcomes}

\* ask_answer, tabulated over the questions asked (@@ makes the table explicit)
AskAnswer ==
    [kb \in KBStates, ws \in WSStates,
     q \in AskQuestions \cup WebAskQuestions, env \in Envs |->
        ask_answer(kb, ws, q, env.query_raises, env.nearest, env.outcome)]
    @@ <<>>

\* s without its i-th element
RemoveAt(s, i) == SubSeq(s, 1, i - 1) \o SubSeq(s, i + 1, Len(s))

\* ask_question reaches "await client.post" of _search_tavily: the question
\* is valid, routed to web_search, and the credential is set
awaits_provider(question) ==
    LET t == AskAnswer[knowledge_base, web_search, question, NoEnv]
    IN /\ QuestionRequest_ok(question)
       /\ ~t.raised
       /\ t.route_decision.route = "web_search"
       /\ tavily_api_key

\* the replies that ask_question meets without waiting: the store's on the
\* knowledge_base route with a collection
AskEnvs(question) ==
    LET t == AskAnswer[knowledge_base, web_search, question, NoEnv]
    IN IF t.raised THEN {NoEnv}
       ELSE IF t.route_decision.route = "knowledge_base"
       THEN IF ~collection THEN {NoEnv}
            ELSE {[NoEnv EXCEPT !.query_raises = TRUE]}
                 \cup {[NoEnv EXCEPT !.nearest = n] :
                           n \in IF store_docs > 0 THEN 1..Len(initial_data)
                                 ELSE {1}}
       ELSE {NoEnv}

\* POST /ask up to its return, or up to "await client.post" when the
\* question goes to the provider: the handler then waits in in_flight and
\* other requests are served.  The clock is read for the question_id and
\* read again for the timestamp, which is the later reading.
AskOf(questions) ==
    /\ init_calls > 0
    /\ Len(responses) + Len(in_flight) < MaxAsks
    /\ \E question \in questions :
          IF ~QuestionRequest_ok(question)
          THEN /\ last' = [op |-> "ask", question |-> question,
                           handled |-> FALSE, status |-> 422]
               /\ UNCHANGED <<question_responses, responses, now, in_flight>>
          ELSE IF awaits_provider(question)
          THEN /\ Len(in_flight) < MaxInFlight
               /\ in_flight' = Append(in_flight, question)
               /\ UNCHANGED <<question_responses, responses, now, last>>
          ELSE \E env \in AskEnvs(question), timestamp \in now..MaxClock :
               LET r == ask_question(AskAnswer[knowledge_base, web_search,
                                               question, env], timestamp)
               IN /\ last' = [op |-> "ask", question |-> question,
                              handled |-> TRUE, status |-> r.status,
                              result |-> r]
                  /\ UNCHANGED in_flight
                  /\ IF r.status = 200
                     THEN /\ question_responses' = store_record(question, r)
                          /\ responses' = Append(responses,
                                                 r.response.question_id)
                          /\ now' = timestamp
                     ELSE /\ timestamp = now
                          /\ UNCHANGED <<question_responses, responses, now>>
    /\ UNCHANGED <<client, collection, store_docs, tavily_api_key,
                   init_calls, feedback_data, routervars, guardvars>>

\* POST /ask from the reply of the provider to its return: synthesis, output
\* guardrail, the two clock readings, the record stored
AskResume ==
    /\ \E i \in 1..Len(in_flight), outcome \in ProviderOutcomes,
          timestamp \in now..MaxClock :
          LET question == in_flight[i]
              r == ask_question(AskAnswer[knowledge_base, web_search, question,
                                          [NoEnv EXCEPT !.outcome = outcome]],
                                timestamp)
          IN /\ in_flight' = RemoveAt(in_flight, i)
             /\ last' = [op |-> "ask", question |-> question,
                         handled |-> TRUE, status |-> r.status,
                         result |-> r]
             /\ question_responses' = store_record(question, r)
             /\ responses' = Append(responses, r.response.question_id)
             /\ now' = timestamp
    /\ UNCHANGED <<client, collection, store_docs, tavily_api_key,
                   init_calls, feedback_data, routervars, guardvars>>

Ask == AskOf(AskQuestions)

\* POST /feedback; feedback_type is stored as given and nothing branches on it
Feedback ==
    /\ init_calls > 0
    /\ Len(feedback_data) < MaxFeedback
    /\ \E question_id \in FeedbackIds, feedback_type \in {"positive"} :
          /\ last' = [op |-> "feedback", question_id |-> question_id,
                      status |-> submit_feedback_status(question_id)]
          /\ feedback_data' = submit_feedback_log(question_id, feedback_type)
    /\ UNCHANGED <<client, collection, store_docs, tavily_api_key, now,
                   init_calls, question_responses, responses, in_flight,
                   routervars, guardvars>>

Next == Startup \/ Tick \/ Ask \/ AskResume \/ Feedback

Spec == Init /\ [][Next]_vars

\* the service asked the web questions
AskWeb == AskOf(WebAskQuestions)

WebNext == Startup \/ Tick \/ AskWeb \/ AskResume

SpecWeb == Init /\ [][WebNext]_vars

(***************************************************************************)
(* The retrieval clients on their own: initialize, is_healthy and the two  *)
(* get_answer operations, called in any order.                             *)
(***************************************************************************)
ClientQuestions == {"What is the derivative of x^2?",
                    "Latest research in graph theory"}

KBInitialize ==
    /\ init_calls < MaxInitCalls
    /\ \E fault \in InitFaults : Initialize(fault)
    /\ UNCHANGED <<routervars, guardvars>>

KBIsHealthy ==
    /\ \E count_raises \in BOOLEAN :
          last' = [op |-> "is_healthy", count_raises |-> count_raises,
                   value |-> is_healthy(count_raises)]
    /\ UNCHANGED <<client, collection, store_docs, tavily_api_key, now,
                   init_calls, question_responses, feedback_data, responses,
                   in_flight, routervars, guardvars>>

KBGetAnswer ==
    /\ \E question \in ClientQuestions, query_raises \in BOOLEAN,
          nearest \in 1..Len(initial_data) :
          last' = [op |-> "kb_get_answer", question |-> question,
                   query_raises |-> query_raises,
                   result |-> kb_get_answer(knowledge_base, question,
                                            query_raises, nearest)]
    /\ UNCHANGED <<client, collection, store_docs, tavily_api_key, now,
                   init_calls, question_responses, feedback_data, responses,
                   in_flight, routervars, guardvars>>

\* the outcome of WebSearchMCP.get_answer recorded in last
web_get_answer_last(question, outcome) ==
    [op |-> "web_get_answer", question |-> question, outcome |-> outcome,
     snippets |-> Len(web_search_results(web_search, question, outcome)),
     result |-> web_get_answer(web_search, question, outcome)]

\* WebSearchMCP.get_answer up to its return, or with a credential up to
\* "await client.post" of _search_tavily, where the call waits in in_flight
WebGetAnswer ==
    /\ \E question \in ClientQuestions :
          IF tavily_api_key
          THEN /\ Len(in_flight) < MaxInFlight
               /\ in_flight' = Append(in_flight, question)
               /\ UNCHANGED last
          ELSE /\ \E outcome \in ProviderOutcomes :
                     last' = web_get_answer_last(question, outcome)
               /\ UNCHANGED in_flight
    /\ UNCHANGED <<client, collection, store_docs, tavily_api_key, now,
                   init_calls, question_responses, feedback_data, responses,
                   routervars, guardvars>>

\* WebSearchMCP.get_answer from the reply of the provider to its return
WebGetAnswerResume ==
    /\ \E i \in 1..Len(in_flight), outcome \in ProviderOutcomes :
          /\ in_flight' = RemoveAt(in_flight, i)
          /\ last' = web_get_answer_last(in_flight[i], outcome)
    /\ UNCHANGED <<client, collection, store_docs, tavily_api_key, now,
                   init_calls, question_responses, feedback_data, responses,
                   routervars, guardvars>>

ClientsNext ==
    KBInitialize \/ KBIsHealthy \/ KBGetAnswer \/ WebGetAnswer
        \/ WebGetAnswerResume

SpecClients == Init /\ [][ClientsNext]_vars

(***************************************************************************)
(* The pure components on their own.  The texts are concatenations of a    *)
(* few fragments.                                                          *)
(***************************************************************************)
\* the concatenations of at most n members of frags
RECURSIVE Texts(_, _)
Texts(frags, n) ==
    IF n = 0 THEN {""}
    ELSE LET shorter == Texts(frags, n - 1)
         IN shorter \cup {t \o f : t \in shorter, f \in frags}

SysIdle ==
    /\ client = FALSE
    /\ collection = FALSE
    /\ store_docs = 0
    /\ tavily_api_key = FALSE
    /\ now = 0
    /\ init_calls = 0
    /\ question_responses = <<>>
    /\ feedback_data = <<>>
    /\ responses = <<>>
    /\ last = [op |-> "none"]
    /\ in_flight = <<>>

\* the router
RouterFragments == {"theorem", "latest", "x^2", "X3", "graph", "new research"}

RouterInit ==
    /\ SysIdle /\ GuardIdle
    /\ rq \in Texts(RouterFragments, MaxRouterFrags)
    /\ decision = NoDecision
    /\ prev_decision = NoDecision
    /\ added = <<>>

Route ==
    /\ decision = NoDecision
    /\ decision' = route_question(rq)
    /\ UNCHANGED <<rq, prev_decision, added, sysvars, guardvars>>

\* the question grows by the keyword, and is routed again
AddKeyword(kind, keyword) ==
    /\ decision # NoDecision
    /\ Len(added) < MaxAdds
    /\ rq' = rq \o " " \o keyword
    /\ prev_decision' = decision
    /\ decision' = route_question(rq')
    /\ added' = Append(added, kind)
    /\ UNCHANGED <<sysvars, guardvars>>

AddKbKeyword == \E i \in 1..Len(kb_keywords) : AddKeyword("kb", kb_keywords[i])

AddWebKeyword == \E i \in 1..Len(web_keywords) : AddKeyword("web", web_keywords[i])

RouterNext == Route \/ AddKbKeyword \/ AddWebKeyword

SpecRouter == RouterInit /\ [][RouterNext]_vars

\* the input guardrail
QuestionFragments == {"2", "+", "ok", "hack", "private", "data", " ", "\n",
                      "Solve", "zz"}

InputInit ==
    /\ SysIdle /\ RouterIdle
    /\ gq \in Texts(QuestionFragments, MaxQuestionFrags)
    /\ gvalid = <<>>
    /\ gans = ""
    /\ gout = <<>>

ValidateInput ==
    /\ gvalid = <<>>
    /\ gvalid' = <<InputValidate(gq)>>
    /\ UNCHANGED <<gq, gans, gout, sysvars, routervars>>

InputNext == ValidateInput

SpecInput == InputInit /\ [][InputNext]_vars

\* the output guardrail
AnswerFragments == {"**Step-by-step", " solution: x = 2", "I cannot", "   ",
                    "abc", "\n", EducationalHeader}

\* the answers the retrieval clients produce
ClientAnswers ==
    {initial_data[i].answer : i \in 1..Len(initial_data)}
    \cup {KBNotInitialized, KBNoMatch, KBQueryError}
    \cup {web_get_answer(ws, q, o).answer :
              ws \in WSStates, q \in ClientQuestions, o \in ProviderOutcomes}

OutputInit ==
    /\ SysIdle /\ RouterIdle
    /\ gq = ""
    /\ gvalid = <<>>
    /\ gans \in Texts(AnswerFragments, MaxAnswerFrags) \cup ClientAnswers
    /\ gout = <<>>

ValidateOutput ==
    /\ gout = <<>>
    /\ gout' = <<OutputValidate(gans)>>
    /\ UNCHANGED <<gq, gvalid, gans, sysvars, routervars>>

\* validate called on the text validate last returned
Revalidate ==
    /\ gout # <<>>
    /\ Len(gout) < MaxPasses
    /\ gout' = Append(gout, OutputValidate(gout[Len(gout)]))
    /\ UNCHANGED <<gq, gvalid, gans, sysvars, routervars>>

OutputNext == ValidateOutput \/ Revalidate

SpecOutput == OutputInit /\ [][OutputNext]_vars

(***************************************************************************)
(* Properties.                                                             *)
(***************************************************************************)
ClientError(status) == status >= 400 /\ status <= 499

\* C1: every ask whose question the input validator rejects ends in a
\* client-error status, not in the server-error status 500.
C1_RejectedIsClientError ==
    (last.op = "ask" /\ ~InputValidate(last.question))
        => ClientError(last.status)

\* C2: no two responses of /ask carry the same question_id.
C2_UniqueQuestionIds ==
    \A i, j \in 1..Len(responses) :
        i # j => responses[i] # responses[j]

NotFoundPrefix == "I couldn't find specific information about '"

\* C3: a web get_answer that synthesizes from no snippets returns the
\* "couldn't find" message with confidence 0 and no sources.
C3_EmptySnippetsZeroConfidence ==
    (last.op = "web_get_answer" /\ last.snippets = 0)
        => /\ startswith(last.result.answer, NotFoundPrefix)
           /\ last.result.confidence = 0
           /\ last.result.sources = <<>>

IsRetrieval == last.op \in {"kb_get_answer", "web_get_answer"}

\* C4: in every result of either get_answer, confidence 0 implies no
\* sources, and no sources implies confidence 0.
C4_ZeroConfidenceIffNoSources ==
    IsRetrieval
        => /\ last.result.confidence = 0 => last.result.sources = <<>>
           /\ ~(last.result.sources = <<>> /\ last.result.confidence # 0)

\* a lookup in an opened store raised, and the result carries confidence 0
C4_Witness ==
    /\ last.op = "kb_get_answer"
    /\ collection
    /\ last.query_raises
    /\ last.result.confidence = 0

NotInitializedResult ==
    [answer |-> KBNotInitialized, confidence |-> 0, sources |-> <<>>,
     metadata |-> <<>>]

\* every is_healthy call is false and every get_answer call returns the
\* "not initialized" result
StoreNotReady ==
    /\ \A count_raises \in BOOLEAN : ~is_healthy(count_raises)
    /\ \A question \in ClientQuestions, query_raises \in BOOLEAN,
          nearest \in 1..Len(initial_data) :
          kb_get_answer(knowledge_base, question, query_raises, nearest)
              = NotInitializedResult

\* C5 as stated: an initialize that fails at any step does not raise and
\* leaves the store not ready (is_healthy false, get_answer "not
\* initialized").
C5_FailedInitNotReady ==
    (last.op = "initialize" /\ last.fault # "none")
        => ~last.raised /\ StoreNotReady

\* C5 as amended: initialize never raises; when it fails at opening the
\* client or at getting the collection and no earlier call had obtained a
\* collection, the store stays uninitialized: is_healthy is false and
\* get_answer returns the "not initialized" result; and get_answer on a
\* store without a collection always returns that result.
C5_FailedOpenNotReady ==
    /\ last.op = "initialize" => ~last.raised
    /\ (/\ last.op = "initialize"
        /\ last.fault \in {"open", "get_collection"}
        /\ ~last.had_collection)
           => ~collection /\ StoreNotReady
    /\ (last.op = "kb_get_answer" /\ ~collection)
           => last.result = NotInitializedResult

\* the first initialize failed at getting the collection
C5_Witness ==
    /\ last.op = "initialize"
    /\ last.fault = "get_collection"
    /\ ~last.had_collection
    /\ client

\* C6: after an initialize that completes, the store is not empty and
\* is_healthy is true.
C6_NonEmptyAfterInit ==
    (last.op = "initialize" /\ last.completed)
        => store_docs > 0 /\ is_healthy(FALSE)

\* C7: the router chooses knowledge_base exactly when kb_score > web_score
\* or the basic-math pattern matches, and web_search otherwise; the scores
\* it reports are the keyword counts of the question.
C7_DecisionRule ==
    decision # NoDecision
        => LET question_lower == lower(rq)
           IN /\ decision.kb_score = kb_score(question_lower)
              /\ decision.web_score = web_score(question_lower)
              /\ decision.route \in {"knowledge_base", "web_search"}
              /\ decision.route = "knowledge_base"
                    <=> \/ decision.kb_score > decision.web_score
                        \/ has_basic_math(question_lower)

\* the pattern matches and forces knowledge_base against the scores
C7_Witness ==
    /\ decision # NoDecision
    /\ has_basic_math(lower(rq))
    /\ decision.web_score > decision.kb_score
    /\ decision.route = "knowledge_base"

LastAdded == added[Len(added)]

\* C8 as stated: adding a knowledge-base keyword never decreases kb_score
\* or the confidence of the decision, adding a web keyword never decreases
\* web_score or the confidence of the decision, and the confidence lies in
\* [0, 1].
C8_Monotonic ==
    /\ decision.confidence >= 0 /\ decision.confidence <= 100
    /\ added # <<>> =>
          /\ LastAdded = "kb" =>
                /\ decision.kb_score >= prev_decision.kb_score
                /\ decision.confidence >= prev_decision.confidence
          /\ LastAdded = "web" =>
                /\ decision.web_score >= prev_decision.web_score
                /\ decision.confidence >= prev_decision.confidence

\* C8 as amended: adding a knowledge-base keyword never decreases kb_score
\* or the knowledge_base confidence min(0.9, 0.6 + 0.1 kb_score), adding a
\* web keyword never decreases web_score or the web_search confidence
\* min(0.8, 0.5 + 0.1 web_score); the confidence of the decision does not
\* decrease when the route is the same before and after; the confidence
\* lies in [0, 1], at most 0.9 on knowledge_base and 0.8 on web_search.
C8_MonotonicPerRoute ==
    /\ decision.confidence >= 0 /\ decision.confidence <= 100
    /\ decision.route = "knowledge_base" => decision.confidence <= 90
    /\ decision.route = "web_search" => decision.confidence <= 80
    /\ added # <<>> =>
          /\ LastAdded = "kb" =>
                /\ decision.kb_score >= prev_decision.kb_score
                /\ kb_confidence(decision.kb_score)
                       >= kb_confidence(prev_decision.kb_score)
          /\ LastAdded = "web" =>
                /\ decision.web_score >= prev_decision.web_score
                /\ web_confidence(decision.web_score)
                       >= web_confidence(prev_decision.web_score)
          /\ decision.route = prev_decision.route =>
                decision.confidence >= prev_decision.confidence

\* a knowledge-base keyword raised the score and the confidence of a
\* question that stays on knowledge_base
C8_Witness ==
    /\ added # <<>>
    /\ LastAdded = "kb"
    /\ prev_decision.route = "knowledge_base"
    /\ decision.route = "knowledge_base"
    /\ decision.kb_score > prev_decision.kb_score
    /\ decision.confidence > prev_decision.confidence

HasDigitOrSymbol(question) == has_numbers(question) \/ has_math_symbols(question)

\* C9 as stated: a question with a digit or a math symbol that matches no
\* blocked pattern is accepted.
C9_DigitOrSymbolAccepted ==
    (gvalid # <<>> /\ HasDigitOrSymbol(gq) /\ ~matches_blocked(gq))
        => gvalid[1]

\* C9 as amended: a question of at least 3 characters after trimming, with
\* a digit or a math symbol, that matches no blocked pattern is accepted.
C9_LongDigitOrSymbolAccepted ==
    (/\ gvalid # <<>>
     /\ Len(strip(gq)) >= 3
     /\ HasDigitOrSymbol(gq)
     /\ ~matches_blocked(gq))
        => gvalid[1]

\* a question of exactly 3 characters after trimming whose only evidence is
\* a digit is accepted
C9_Witness ==
    /\ gvalid # <<>>
    /\ Len(strip(gq)) = 3
    /\ has_numbers(gq)
    /\ ~has_math_symbols(gq)
    /\ ~has_math_content(lower(gq))
    /\ ~has_question_words(lower(gq))
    /\ ~matches_blocked(gq)
    /\ gvalid[1]

HeaderMarker == "**Educational Mathematical Response"

BeginsWithMarker(text) ==
    startswith(text, StepMarker) \/ startswith(text, HeaderMarker)

\* C10 as stated: every text the output validator returns has at least 10
\* characters and begins with the step-by-step marker or the header.
C10_LengthAndMarker ==
    gout # <<>> => Len(gout[1]) >= 10 /\ BeginsWithMarker(gout[1])

\* C10 as amended: every text the output validator returns has at least 10
\* characters; for an answer of at least 10 characters after trimming it
\* begins with the step-by-step marker or the header; for an empty or
\* shorter answer it is the fallback message, which begins with neither.
C10_LengthAndMarkerUnlessFallback ==
    gout # <<>>
        => /\ Len(gout[1]) >= 10
           /\ IF gans = "" \/ Len(strip(gans)) < 10
              THEN gout[1] = FallbackMessage /\ ~BeginsWithMarker(gout[1])
              ELSE BeginsWithMarker(gout[1])

\* an answer that has the step-by-step marker, but not at its start, is
\* returned under the header
C10_Witness ==
    /\ gout # <<>>
    /\ Len(strip(gans)) >= 10
    /\ contains(gans, StepMarker)
    /\ ~startswith(gans, StepMarker)
    /\ startswith(gout[1], EducationalHeader)

\* an answer the claim takes as already well formed: at least 10 characters
\* after trimming, under the step-by-step marker or the header, and free of
\* the evasive phrases
WellFormed(text) ==
    /\ Len(strip(text)) >= MinAnswerLen
    /\ BeginsWithMarker(text)
    /\ ~has_blocked_output(text)

\* C11: for an answer of at least 10 characters that already begins with the
\* header or the step-by-step marker and has no evasive phrase, validating
\* the validated text returns it unchanged: validate(validate(x)) =
\* validate(x), with no second header and no second disclaimer.
C11_Idempotent ==
    (Len(gout) >= 2 /\ WellFormed(gans)) => gout[2] = gout[1]

\* C11 as amended: for an answer of at least 10 characters that begins with
\* the step-by-step marker and has no evasive phrase, the validator returns
\* the answer itself and validating that again returns it unchanged; for
\* such an answer that begins with the header instead, every validation
\* puts one more header in front.
C11_IdempotentUnderStepMarker ==
    (Len(gout) >= 2 /\ WellFormed(gans))
        => IF startswith(gans, StepMarker)
           THEN gout[1] = gans /\ gout[2] = gout[1]
           ELSE /\ gout[1] = EducationalHeader \o gans
                /\ gout[2] = EducationalHeader \o gout[1]

\* a step-by-step answer validated twice and returned as it was
C11_Witness ==
    /\ Len(gout) >= 2
    /\ WellFormed(gans)
    /\ startswith(gans, StepMarker)
    /\ gout[2] = gans

\* an answered ask of the web route, served by the simulated search
SimulatedWebAnswer ==
    /\ last.op = "ask"
    /\ last.status = 200
    /\ last.result.response.route_used = "web_search"
    /\ ~tavily_api_key

WebHeading == "**Step-by-step solution via Web Search:**"

\* C12: for a question routed to web_search with no provider credential,
\* the output validator prepends the header to the simulated two-snippet
\* synthesis, so the final answer contains both "Educational Mathematical
\* Response" and "Source 1".
C12_WebAnswerHasHeaderAndSource ==
    SimulatedWebAnswer
        => /\ contains(last.result.response.answer,
                       "Educational Mathematical Response")
           /\ contains(last.result.response.answer, "Source 1")

HeaderText == "Educational Mathematical Response"

\* C12 as amended: for a question routed to web_search with no provider
\* credential, the simulated two-snippet synthesis begins with the
\* step-by-step marker, so the output validator prepends no header: the
\* final answer is the synthesis, followed by the disclaimer when the
\* synthesis holds an evasive phrase; it begins with "**Step-by-step
\* solution via Web Search:**", not with the header, and contains
\* "Source 1"; it contains "Educational Mathematical Response" only when the
\* question, which the synthesis quotes, contains it.
C12_WebAnswerKeepsStepHeading ==
    SimulatedWebAnswer
        => LET synthesis == _synthesize_basic(last.question,
                                              _simulate_search(last.question))
               answer == last.result.response.answer
           IN /\ answer = IF has_blocked_output(synthesis)
                          THEN synthesis \o Disclaimer ELSE synthesis
              /\ startswith(answer, WebHeading)
              /\ ~startswith(answer, EducationalHeader)
              /\ contains(answer, "Source 1")
              /\ contains(answer, HeaderText)
                     <=> contains(last.question, HeaderText)

\* "Latest research in graph theory" answered by the simulated search
C12_Witness ==
    /\ SimulatedWebAnswer
    /\ last.question = "Latest research in graph theory"
    /\ contains(last.result.response.answer, "Source 1")
    /\ ~contains(last.result.response.answer, HeaderText)

ResponseFields ==
    {"answer", "route_used", "confidence_score", "sources", "timestamp",
     "question_id"}

\* the verdict of the input validator on each question asked
AskValid == [q \in AskQuestions |-> InputValidate(q)] @@ <<>>

\* C13: every ask whose question passes the input validator returns a
\* response with answer, route_used, confidence, sources, question_id and
\* timestamp, and never the server-error status, also when the store lookup
\* or the provider call fails: the failure comes back as a retrieval result.
C13_ValidAskAnswered ==
    (last.op = "ask" /\ last.handled /\ AskValid[last.question])
        => /\ last.status = 200
           /\ DOMAIN last.result.response = ResponseFields
           /\ last.result.response.route_used \in {"knowledge_base", "web_search"}
           /\ Len(last.result.response.answer) >= MinAnswerLen
           /\ last.result.response.confidence_score \in 0..100

\* an ask answered with the message of a failed store lookup
C13_Witness ==
    /\ last.op = "ask"
    /\ last.handled
    /\ AskValid[last.question]
    /\ last.status = 200
    /\ last.result.response.route_used = "knowledge_base"
    /\ collection
    /\ last.result.response.answer = EducationalHeader \o KBQueryError
    /\ last.result.response.confidence_score = 0

\* C14: an ask or a feedback that ends in an error status leaves the map of
\* question records and the feedback log as they were; the map changes only
\* in an ask that returns a response, which adds or replaces one record, and
\* the log only in an accepted feedback, which appends one entry.
C14_ErrorsLeaveStoresUnchanged ==
    [][ /\ (last'.op \in {"ask", "feedback"} /\ last'.status # 200)
            => UNCHANGED <<question_responses, feedback_data>>
        /\ question_responses' # question_responses
            => /\ last'.op = "ask" /\ last'.status = 200
               /\ DOMAIN question_responses' =
                      DOMAIN question_responses
                          \cup {last'.result.response.question_id}
               /\ UNCHANGED feedback_data
        /\ feedback_data' # feedback_data
            => /\ last'.op = "feedback" /\ last'.status = 200
               /\ Len(feedback_data') = Len(feedback_data) + 1
               /\ SubSeq(feedback_data', 1, Len(feedback_data)) = feedback_data
               /\ UNCHANGED question_responses ]_vars

\* a rejected ask that found a stored record and a logged feedback, both
\* still there
C14_Witness ==
    /\ last.op = "ask"
    /\ last.handled
    /\ last.status = 500
    /\ DOMAIN question_responses # {}
    /\ feedback_data # <<>>

====
